---- MODULE Spec2Model ----
(***************************************************************************)
(* Military asset management backend.                                      *)
(*                                                                         *)
(*   server.js  : in-memory variant.  Credential store `users`, the        *)
(*                collections of `assets`, JWT authentication middleware,  *)
(*                role gate, signup/login and the transaction endpoints.   *)
(*   part_000   : persistent variant.  Asset entity CRUD over a Mongoose   *)
(*                model (collection `db`).                                 *)
(*                                                                         *)
(* Three specifications are given: SpecTx (protected routes of server.js), *)
(* SpecAuth (signup/login of server.js) and SpecAsset (part_000).          *)
(***************************************************************************)
EXTENDS Integers, Sequences, FiniteSets, TLC

VARIABLES
    users,      \* server.js: const users = []
    assets,     \* server.js: const assets = { inventory, purchases, ... }
    clock,      \* value returned by Date.now()
    reqs,       \* in-flight / answered HTTP requests of server.js, by slot
    db,         \* part_000: documents of the Asset collection, insertion order
    nextId,     \* part_000: next ObjectId the store hands out
    last        \* part_000: the answer to the last request

vars == <<users, assets, clock, reqs, db, nextId, last>>

----------------------------------------------------------------------------
(* Bounds of the model. *)

MaxTxReq == 2       \* requests on protected routes in one run
MaxAuthReq == 3     \* signup/login requests in one run
MaxClock == 2       \* Date.now() ranges over 1..MaxClock
MaxIds == 2         \* ObjectIds the store hands out in one run

----------------------------------------------------------------------------
(* Generic helpers. *)

Range(s) == {s[i] : i \in 1..Len(s)}

----------------------------------------------------------------------------
(* JSON Web Tokens (jsonwebtoken).  A token is its payload together with   *)
(* the key it was signed with.  jwt.sign is called without expiresIn, so   *)
(* tokens carry no exp claim.                                              *)

JWT_SECRET == "your_super_secret_jwt_key"

JwtSign(payload, secret) == [payload |-> payload, key |-> secret]

\* jwt.verify(token, secret, cb): err unless the signature is made with
\* `secret`; otherwise cb(null, payload).
JwtVerifyErr(token, secret) == token.key # secret

Payload(id, email, role) == [id |-> id, email |-> email, role |-> role]

\* The empty string given to jwt.verify: "jwt must be provided".
EmptyJwt == [payload |-> Payload(0, "", ""), key |-> ""]

\* Tokens a client may present.
TokenInputs ==
    { JwtSign(Payload(1, "a@x.com", "logistics"), JWT_SECRET),
      JwtSign(Payload(2, "b@x.com", "admin"), JWT_SECRET),
      JwtSign(Payload(1, "a@x.com", "logistics"), "forged_key") }

\* The Authorization header: absent, or a string given here by its words
\* (the header split at single spaces; the empty string has no words).
NoHeader == [present |-> FALSE, words |-> <<>>]
HeaderInputs ==
    { NoHeader,
      [present |-> TRUE, words |-> <<>>],
      [present |-> TRUE, words |-> <<"Bearer">>] }
    \cup { [present |-> TRUE, words |-> <<"Bearer", t>>] : t \in TokenInputs }

\* const token = authHeader && authHeader.split(' ')[1];
\*   authHeader undefined -> undefined;  '' -> '';  otherwise element 1 of
\*   the split, undefined when the header has a single word.
TokenIsNull(h) == ~h.present \/ Len(h.words) = 1
TokenOf(h) == IF Len(h.words) >= 2 THEN h.words[2] ELSE EmptyJwt

NoUser == [set |-> FALSE, claims |-> Payload(0, "", "")]

\* The test of authorizeRole written with === in place of !==.
RoleMismatchInverted(user, requiredRole) == user.claims.role = requiredRole

\* authorizeRole: req.user.role !== requiredRole
RoleMismatch(user, requiredRole) == user.claims.role # requiredRole

----------------------------------------------------------------------------
(* Routes of server.js and their middleware chains. *)

CreateRoutes == {"purchase", "transfer", "assignment", "expenditure"}
ProtectedRoutes == CreateRoutes \cup {"inventory"}

\* app.post('/api/assets/<route>', authenticateToken, authorizeRole('logistics'), handler)
\* app.get('/api/assets/inventory', authenticateToken, handler)
Chain(route) ==
    IF route \in CreateRoutes
    THEN <<"authenticateToken", "authorizeRole", "handler">>
    ELSE <<"authenticateToken", "handler">>

RequiredRole(route) == "logistics"

\* The collection a create route appends to.
CollectionOf(route) ==
    CASE route = "purchase" -> "purchases"
      [] route = "transfer" -> "transfers"
      [] route = "assignment" -> "assignments"
      [] route = "expenditure" -> "expenditures"

Collections == {"purchases", "transfers", "assignments", "expenditures"}

\* Request bodies of the create routes (free-form JSON objects).
BodyInputs ==
    { [item |-> "rifle"],
      [item |-> "rifle", id |-> 7] }

NoBody == [x \in {} |-> 0]

\* The spread written after the id: { id: Date.now(), ...req.body }
NewRecordBodyLast(body, now) ==
    [f \in DOMAIN body \cup {"id"} |-> IF f \in DOMAIN body THEN body[f] ELSE now]

\* { ...req.body, id: Date.now() }
NewRecord(body, now) ==
    [f \in DOMAIN body \cup {"id"} |-> IF f = "id" THEN now ELSE body[f]]

\* An assignment in place of the push: the collection holds the new record only.
PushReplace(coll, rec) == <<rec>>

\* Array.prototype.push
Push(coll, rec) == Append(coll, rec)

Inventory ==
    << [base |-> "Fort Bravo", equipmentType |-> "Rifle (M4)", openingBalance |-> 500,
        closingBalance |-> 480, assigned |-> 15, expended |-> 5, netMovement |-> -20],
       [base |-> "Fort Alpha", equipmentType |-> "Grenade (M67)", openingBalance |-> 1200,
        closingBalance |-> 1150, assigned |-> 0, expended |-> 50, netMovement |-> -50],
       [base |-> "Naval Base Charlie", equipmentType |-> "Night Vision Goggles",
        openingBalance |-> 150, closingBalance |-> 150, assigned |-> 0, expended |-> 0,
        netMovement |-> 0],
       [base |-> "Airfield Delta", equipmentType |-> "Aircraft (F-35)", openingBalance |-> 20,
        closingBalance |-> 20, assigned |-> 0, expended |-> 0, netMovement |-> 0] >>

InitAssets ==
    [inventory |-> Inventory, purchases |-> <<>>, transfers |-> <<>>,
     assignments |-> <<>>, expenditures |-> <<>>]

----------------------------------------------------------------------------
(* Requests on the protected routes.  `stage` is the position in the       *)
(* route's chain, `trace` the middleware entered so far, `sent` the number *)
(* of responses written.                                                   *)

IdleTx ==
    [pc |-> "idle", route |-> "inventory", header |-> NoHeader, body |-> NoBody,
     stage |-> 0, user |-> NoUser, status |-> 0, sent |-> 0, data |-> NoBody,
     trace |-> <<>>]

TxSlots == 1..MaxTxReq

\* A response without `return`: the response is written and the chain goes on.
RespondNoReturn(q, code, data) ==
    IF q.stage < Len(Chain(q.route))
    THEN [q EXCEPT !.status = code, !.sent = q.sent + 1, !.data = data,
                   !.stage = q.stage + 1,
                   !.pc = Chain(q.route)[q.stage + 1],
                   !.trace = Append(q.trace, Chain(q.route)[q.stage + 1])]
    ELSE [q EXCEPT !.pc = "done", !.status = code, !.sent = q.sent + 1, !.data = data]

\* return res.status(code).json(...): one response, and the chain stops.
Respond(q, code, data) ==
    [q EXCEPT !.pc = "done", !.status = code, !.sent = q.sent + 1, !.data = data]

\* next(): enter the following middleware of the chain.
NextStage(q) ==
    [q EXCEPT !.stage = q.stage + 1,
              !.pc = Chain(q.route)[q.stage + 1],
              !.trace = Append(q.trace, Chain(q.route)[q.stage + 1])]

InitTx ==
    /\ users = <<>>
    /\ assets = InitAssets
    /\ clock = 1
    /\ reqs = [r \in TxSlots |-> IdleTx]
    /\ db = <<>>
    /\ nextId = 1
    /\ last = [op |-> "none", status |-> 0]

\* A request arrives on a protected route; express enters the first
\* middleware of the route.  (req.body is read by the handler alone and is
\* drawn there.)
ArriveTx(r) ==
    /\ reqs[r].pc = "idle"
    /\ \A s \in TxSlots : s < r => reqs[s].pc # "idle"
    /\ \E route \in ProtectedRoutes, h \in HeaderInputs :
         reqs' = [reqs EXCEPT ![r] =
                    NextStage([IdleTx EXCEPT !.route = route, !.header = h])]
    /\ UNCHANGED <<users, assets, clock, db, nextId, last>>

AuthenticateToken(r) ==
    LET q == reqs[r]
        token == TokenOf(q.header)
    IN /\ q.pc = "authenticateToken"
       /\ reqs' = [reqs EXCEPT ![r] =
            IF TokenIsNull(q.header) THEN Respond(q, 401, NoBody)
            ELSE IF JwtVerifyErr(token, JWT_SECRET) THEN Respond(q, 403, NoBody)
            ELSE NextStage([q EXCEPT !.user = [set |-> TRUE, claims |-> token.payload]])]
       /\ UNCHANGED <<users, assets, clock, db, nextId, last>>

AuthorizeRole(r) ==
    LET q == reqs[r]
    IN /\ q.pc = "authorizeRole"
       /\ reqs' = [reqs EXCEPT ![r] =
            IF RoleMismatch(q.user, RequiredRole(q.route)) THEN Respond(q, 403, NoBody)
            ELSE NextStage(q)]
       /\ UNCHANGED <<users, assets, clock, db, nextId, last>>

InventoryHandler(r) ==
    LET q == reqs[r]
    IN /\ q.pc = "handler"
       /\ q.route = "inventory"
       /\ reqs' = [reqs EXCEPT ![r] = Respond(q, 200, NoBody)]
       /\ UNCHANGED <<users, assets, clock, db, nextId, last>>

\* The four create handlers differ only in the collection they push to.
CreateHandler(r, route) ==
    /\ reqs[r].pc = "handler"
    /\ reqs[r].route = route
    /\ \E body \in BodyInputs :
         LET q == [reqs[r] EXCEPT !.body = body]
             rec == NewRecord(q.body, clock)
             c == CollectionOf(route)
         IN /\ assets' = [assets EXCEPT ![c] = Push(assets[c], rec)]
            /\ reqs' = [reqs EXCEPT ![r] = Respond(q, 201, rec)]
    /\ UNCHANGED <<users, clock, db, nextId, last>>

PurchaseHandler(r) == CreateHandler(r, "purchase")
TransferHandler(r) == CreateHandler(r, "transfer")
AssignmentHandler(r) == CreateHandler(r, "assignment")
ExpenditureHandler(r) == CreateHandler(r, "expenditure")

\* Time passes: Date.now() is non-decreasing.
Tick ==
    /\ clock < MaxClock
    /\ clock' = clock + 1
    /\ UNCHANGED <<users, assets, reqs, db, nextId, last>>

NextTx ==
    \/ \E r \in TxSlots : ArriveTx(r)
    \/ \E r \in TxSlots : AuthenticateToken(r)
    \/ \E r \in TxSlots : AuthorizeRole(r)
    \/ \E r \in TxSlots : InventoryHandler(r)
    \/ \E r \in TxSlots : PurchaseHandler(r)
    \/ \E r \in TxSlots : TransferHandler(r)
    \/ \E r \in TxSlots : AssignmentHandler(r)
    \/ \E r \in TxSlots : ExpenditureHandler(r)
    \/ Tick

SpecTx == InitTx /\ [][NextTx]_vars

----------------------------------------------------------------------------
(* Signup and login (server.js).                                           *)
(*                                                                         *)
(* A password is what the JSON body holds under `password`: a string, or   *)
(* something that is no string (absent, a number).  A string is given by   *)
(* its bytes, written as runs: Run(b, n) is the byte b repeated n times.   *)

BCRYPT_MAX_BYTES == 72

Run(b, n) == [byte |-> b, n |-> n]

Str(bytes) == [isString |-> TRUE, bytes |-> bytes]
NotAString == [isString |-> FALSE, bytes |-> <<>>]

\* A string of BCRYPT_MAX_BYTES + 1 bytes: 72 times the byte 1, then k.
LongBytes(k) == << Run(1, BCRYPT_MAX_BYTES), Run(k, 1) >>

PasswordInputs == { Str(<<Run(2, 1)>>), Str(LongBytes(2)), Str(LongBytes(3)), NotAString }
EmailInputs == { "a@x.com", "A@x.com" }

\* The first k bytes of a string.
RECURSIVE TakeBytes(_, _)
TakeBytes(bytes, k) ==
    IF bytes = <<>> \/ k = 0 THEN <<>>
    ELSE IF Head(bytes).n <= k
         THEN <<Head(bytes)>> \o TakeBytes(Tail(bytes), k - Head(bytes).n)
         ELSE << Run(Head(bytes).byte, k) >>

\* bcrypt keys the cipher with the first 72 bytes of the password.
BcryptKey(bytes) == TakeBytes(bytes, BCRYPT_MAX_BYTES)

\* bcrypt.hash(password, 10) and bcrypt.compare(password, hash) reject with
\* "Illegal arguments" when the password is no string.
BcryptThrows(password) == ~password.isString

BcryptHash(password, rounds) == [rounds |-> rounds, digest |-> BcryptKey(password.bytes)]

BcryptCompare(password, hash) ==
    BcryptHash(password, hash.rounds).digest = hash.digest

NoHash == [rounds |-> 0, digest |-> <<>>]
NoIdentity == [id |-> 0, email |-> "", password |-> NoHash, role |-> ""]
NoJwt == [issued |-> FALSE, jwt |-> EmptyJwt]

\* users.find(user => user.email === email): the first identity with the
\* email, if there is one.
FindByEmail(us, email) ==
    LET hits == {i \in 1..Len(us) : us[i].email = email}
    IN IF hits = {} THEN [found |-> FALSE, user |-> NoIdentity]
       ELSE [found |-> TRUE, user |-> us[CHOOSE i \in hits : \A j \in hits : i <= j]]

AuthSlots == 1..MaxAuthReq

\* `seen`: the signup requests already answered 201 when this one arrived.
IdleAuth ==
    [pc |-> "idle", route |-> "signup", email |-> "", password |-> NotAString,
     user |-> NoIdentity, status |-> 0, token |-> NoJwt, seen |-> {}]

RespondAuth(q, code, token) == [q EXCEPT !.pc = "done", !.status = code, !.token = token]

SignedUp(q) == q.route = "signup" /\ q.pc = "done" /\ q.status = 201

InitAuth ==
    /\ users = <<>>
    /\ assets = InitAssets
    /\ clock = 1
    /\ reqs = [r \in AuthSlots |-> IdleAuth]
    /\ db = <<>>
    /\ nextId = 1
    /\ last = [op |-> "none", status |-> 0]

NewAuthReq(r, route, email, password) ==
    [IdleAuth EXCEPT !.route = route, !.email = email, !.password = password,
                     !.seen = {s \in AuthSlots : SignedUp(reqs[s])}]

\* POST /api/auth/signup, up to the await: 409 when the email is found,
\* otherwise the handler is suspended at bcrypt.hash.
SignupBegin(r) ==
    /\ reqs[r].pc = "idle"
    /\ \A s \in AuthSlots : s < r => reqs[s].pc # "idle"
    /\ \E email \in EmailInputs, password \in PasswordInputs :
         LET q == NewAuthReq(r, "signup", email, password)
         IN reqs' = [reqs EXCEPT ![r] =
                       IF FindByEmail(users, email).found
                       THEN RespondAuth(q, 409, NoJwt)
                       ELSE [q EXCEPT !.pc = "hashing"]]
    /\ UNCHANGED <<users, assets, clock, db, nextId, last>>

\* POST /api/auth/signup, after the await: the identity is pushed and a
\* token signed (201); a rejected hash is caught (500).
SignupResume(r) ==
    LET q == reqs[r]
        newUser == [id |-> Len(users) + 1, email |-> q.email,
                    password |-> BcryptHash(q.password, 10), role |-> "logistics"]
        token == JwtSign(Payload(newUser.id, newUser.email, newUser.role), JWT_SECRET)
    IN /\ q.pc = "hashing"
       /\ IF BcryptThrows(q.password)
          THEN /\ reqs' = [reqs EXCEPT ![r] = RespondAuth(q, 500, NoJwt)]
               /\ users' = users
          ELSE /\ users' = Push(users, newUser)
               /\ reqs' = [reqs EXCEPT ![r] =
                             RespondAuth([q EXCEPT !.user = newUser], 201,
                                         [issued |-> TRUE, jwt |-> token])]
       /\ UNCHANGED <<assets, clock, db, nextId, last>>

\* POST /api/auth/login, up to the await: 404 when no identity has the
\* email, otherwise the handler is suspended at bcrypt.compare holding the
\* identity it found.
LoginBegin(r) ==
    /\ reqs[r].pc = "idle"
    /\ \A s \in AuthSlots : s < r => reqs[s].pc # "idle"
    /\ \E email \in EmailInputs, password \in PasswordInputs :
         LET q == NewAuthReq(r, "login", email, password)
             f == FindByEmail(users, email)
         IN reqs' = [reqs EXCEPT ![r] =
                       IF ~f.found
                       THEN RespondAuth(q, 404, NoJwt)
                       ELSE [q EXCEPT !.pc = "comparing", !.user = f.user]]
    /\ UNCHANGED <<users, assets, clock, db, nextId, last>>

\* POST /api/auth/login, after the await: 200 with a token when the hash
\* matches, 401 when it does not, 500 when the comparison rejects.
LoginResume(r) ==
    LET q == reqs[r]
        token == JwtSign(Payload(q.user.id, q.user.email, q.user.role), JWT_SECRET)
    IN /\ q.pc = "comparing"
       /\ reqs' = [reqs EXCEPT ![r] =
            IF BcryptThrows(q.password) THEN RespondAuth(q, 500, NoJwt)
            ELSE IF BcryptCompare(q.password, q.user.password)
                 THEN RespondAuth(q, 200, [issued |-> TRUE, jwt |-> token])
                 ELSE RespondAuth(q, 401, NoJwt)]
       /\ UNCHANGED <<users, assets, clock, db, nextId, last>>

NextAuth ==
    \/ \E r \in AuthSlots : SignupBegin(r)
    \/ \E r \in AuthSlots : SignupResume(r)
    \/ \E r \in AuthSlots : LoginBegin(r)
    \/ \E r \in AuthSlots : LoginResume(r)

SpecAuth == InitAuth /\ [][NextAuth]_vars

----------------------------------------------------------------------------
(* Properties of signup and login (SpecAuth). *)

\* C1: the credential store never holds two identities with the same
\* email.
C1_EmailsUnique ==
    \A i, j \in 1..Len(users) : i # j => users[i].email # users[j].email

\* C3: once a signup has answered 201, every login that arrives later with
\* the same email and secret answers 200 with a token whose role claim is
\* the role stored for that identity.
C3_LoginAfterSignup ==
    \A s, l \in AuthSlots :
        (/\ SignedUp(reqs[s])
         /\ reqs[l].route = "login" /\ reqs[l].pc = "done"
         /\ s \in reqs[l].seen
         /\ reqs[l].email = reqs[s].email
         /\ reqs[l].password = reqs[s].password)
        => /\ reqs[l].status = 200
           /\ reqs[l].token.issued
           /\ reqs[l].token.jwt.payload.role = reqs[s].user.role

\* The login's secret is a string that was given at no answered signup of
\* its email.
WrongSecret(l) ==
    /\ reqs[l].password.isString
    /\ \A s \in AuthSlots :
          (SignedUp(reqs[s]) /\ reqs[s].email = reqs[l].email)
          => reqs[s].password # reqs[l].password

\* C7: a login for a registered email with a secret other than the one
\* given at signup answers 401 and carries no token.
C7_WrongSecretRejected ==
    \A l \in AuthSlots :
        (/\ reqs[l].route = "login" /\ reqs[l].pc = "done"
         /\ reqs[l].status # 404
         /\ WrongSecret(l))
        => /\ reqs[l].status = 401
           /\ ~reqs[l].token.issued

----------------------------------------------------------------------------
(* Asset entity CRUD (part_000).                                           *)
(*                                                                         *)
(* A string is the sequence of its pieces, each a blank " " or a word.     *)
(* A field of a document or of a JSON body is absent or holds a string.    *)

Absent == [has |-> FALSE, str |-> <<>>]
S(str) == [has |-> TRUE, str |-> str]

RECURSIVE TrimLeft(_)
TrimLeft(s) == IF s # <<>> /\ Head(s) = " " THEN TrimLeft(Tail(s)) ELSE s

RECURSIVE TrimRight(_)
TrimRight(s) ==
    IF s # <<>> /\ s[Len(s)] = " " THEN TrimRight(SubSeq(s, 1, Len(s) - 1)) ELSE s

\* String.prototype.trim, the setter of a schema path with trim: true.
Trim(s) == TrimRight(TrimLeft(s))

\* assetSchema
Paths == {"name", "type", "status", "location", "description"}
RequiredPaths == {"name", "type", "status", "location"}
StatusEnum == { <<"operational">>, <<"maintenance">>, <<"deployed">>, <<"decommissioned">> }

\* Casting a value to a path of the schema: strings are trimmed.
CastValue(v) == IF v.has THEN S(Trim(v.str)) ELSE v

\* The validators of a path: required (a non-empty string) and, for status,
\* enum (run on a value that is present).
PathInvalid(p, v) ==
    \/ p \in RequiredPaths /\ (~v.has \/ v.str = <<>>)
    \/ p = "status" /\ v.has /\ v.str \notin StatusEnum

\* document.validate(): some path fails its validators.
ValidationFails(f) == \E p \in Paths : PathInvalid(p, f[p])

\* JSON request bodies.  `fields` are the keys that are schema paths,
\* `unset` the paths under a $unset key, `rename` the <<from, to>> pairs
\* under a $rename key.
Body(fields, unset, rename) == [fields |-> fields, unset |-> unset, rename |-> rename]

ValueInputs(p) ==
    CASE p = "name" -> { Absent, S(<<"M1">>), S(<<" ", "M1", " ">>), S(<<" ">>) }
      [] p = "type" -> { Absent, S(<<"tank">>) }
      [] p = "status" -> { Absent, S(<<"operational">>), S(<<" ", "deployed", " ">>),
                           S(<<"bogus">>) }
      [] p = "location" -> { Absent, S(<<"base">>) }
      [] p = "description" -> { Absent, S(<<"spare">>) }

NoFields == [p \in Paths |-> Absent]

\* A complete entity as a client posts it.
FullFields ==
    [p \in Paths |->
       CASE p = "name" -> S(<<" ", "M1", " ">>)
         [] p = "type" -> S(<<"tank">>)
         [] p = "status" -> S(<<"operational">>)
         [] p = "location" -> S(<<"base">>)
         [] p = "description" -> Absent]

PathValues == UNION { { <<p, v>> : v \in ValueInputs(p) } : p \in Paths }

\* Bodies of POST: the complete entity with one field given each of its values.
PostBodyInputs == { Body([FullFields EXCEPT ![pv[1]] = pv[2]], {}, {}) : pv \in PathValues }

\* Bodies of PUT: the empty object, one field set, a $unset, a $rename.
PutBodyInputs ==
    { Body([NoFields EXCEPT ![pv[1]] = pv[2]], {}, {}) : pv \in PathValues }
    \cup { Body(NoFields, {u}, {}) : u \in {"name", "description"} }
    \cup { Body(NoFields, {}, {rn}) : rn \in { <<"status", "description">> } }

\* req.params.id: a 24-digit hexadecimal string naming ObjectId n, or a
\* string that is no ObjectId.
Oid(n) == [wellFormed |-> TRUE, n |-> n]
MalformedId == [wellFormed |-> FALSE, n |-> 0]
IdInputs == { MalformedId } \cup { Oid(n) : n \in 1..MaxIds }

Stored(coll, id) == id.wellFormed /\ \E i \in 1..Len(coll) : coll[i]._id = id.n

\* The position of the document with _id id, 0 when there is none.
IndexOfId(coll, id) ==
    IF Stored(coll, id) THEN CHOOSE i \in 1..Len(coll) : coll[i]._id = id.n ELSE 0

\* new Asset({ name: req.body.name, ... }): the five paths cast from the
\* body, createdAt by its default.
NewAsset(body, id, now) ==
    [_id |-> id, f |-> [p \in Paths |-> CastValue(body.fields[p])], createdAt |-> now]

\* castUpdate: keys that are no operators become $set, their values cast.
CastUpdate(body) ==
    [set |-> [p \in {x \in Paths : body.fields[x].has} |-> CastValue(body.fields[p])],
     unset |-> body.unset,
     rename |-> body.rename]

\* Update validators (runValidators: true): the paths under $set are
\* validated with their new value, the paths under $unset as absent; no
\* other operator is validated.
UpdateValidationFails(upd) ==
    \/ \E p \in DOMAIN upd.set : PathInvalid(p, upd.set[p])
    \/ \E p \in upd.unset : PathInvalid(p, Absent)

\* The document after the store applied the update to it.
ApplyUpdate(doc, upd) ==
    LET afterSet == [p \in Paths |-> IF p \in DOMAIN upd.set THEN upd.set[p] ELSE doc.f[p]]
        afterUnset == [p \in Paths |-> IF p \in upd.unset THEN Absent ELSE afterSet[p]]
        moved(p) == {rn \in upd.rename : rn[2] = p /\ afterUnset[rn[1]].has}
        afterRename ==
            [p \in Paths |->
               IF \E rn \in upd.rename : rn[1] = p THEN Absent
               ELSE IF moved(p) # {} THEN afterUnset[(CHOOSE rn \in moved(p) : TRUE)[1]]
               ELSE afterUnset[p]]
    IN [doc EXCEPT !.f = afterRename]

\* findOneAndUpdate with upsert: a filter that matches nothing inserts.
FindOneAndUpdateUpsert(coll, id, upd) ==
    LET i == IndexOfId(coll, id)
    IN IF i = 0
       THEN Append(coll, ApplyUpdate([_id |-> id.n, f |-> [p \in Paths |-> Absent],
                                      createdAt |-> 0], upd))
       ELSE [coll EXCEPT ![i] = ApplyUpdate(coll[i], upd)]

\* The store's findOneAndUpdate({_id: id}, upd): the collection afterwards.
FindOneAndUpdate(coll, id, upd) ==
    LET i == IndexOfId(coll, id)
    IN IF i = 0 THEN coll ELSE [coll EXCEPT ![i] = ApplyUpdate(coll[i], upd)]

\* The store's findOneAndDelete({_id: id}): the collection afterwards.
FindOneAndDelete(coll, id) ==
    LET i == IndexOfId(coll, id)
    IN IF i = 0 THEN coll
       ELSE SubSeq(coll, 1, i - 1) \o SubSeq(coll, i + 1, Len(coll))

NoRequestBody == Body(NoFields, {}, {})

\* What was asked last and the status it was answered with.
Answer(op, id, body, status) == [op |-> op, id |-> id, body |-> body, status |-> status]

InitAsset ==
    /\ users = <<>>
    /\ assets = InitAssets
    /\ clock = 1
    /\ reqs = <<>>
    /\ db = <<>>
    /\ nextId = 1
    /\ last = Answer("none", MalformedId, NoRequestBody, 0)

\* GET /api/assets
GetAssets ==
    /\ last' = Answer("LIST", MalformedId, NoRequestBody, 200)
    /\ UNCHANGED <<users, assets, clock, reqs, db, nextId>>

\* GET /api/assets/:id
GetAsset ==
    \E id \in IdInputs :
        /\ last' = Answer("GET", id, NoRequestBody,
                          IF ~id.wellFormed THEN 500
                          ELSE IF ~Stored(db, id) THEN 404 ELSE 200)
        /\ UNCHANGED <<users, assets, clock, reqs, db, nextId>>

\* POST /api/assets
PostAsset ==
    \E body \in PostBodyInputs :
        LET newAsset == NewAsset(body, nextId, clock)
        IN /\ nextId <= MaxIds
           /\ IF ValidationFails(newAsset.f)
              THEN /\ last' = Answer("POST", MalformedId, NoRequestBody, 400)
                   /\ UNCHANGED <<db, nextId>>
              ELSE /\ db' = Append(db, newAsset)
                   /\ nextId' = nextId + 1
                   /\ last' = Answer("POST", Oid(nextId), NoRequestBody, 201)
           /\ UNCHANGED <<users, assets, clock, reqs>>

\* PUT /api/assets/:id
PutAsset ==
    \E id \in IdInputs, body \in PutBodyInputs :
        LET upd == CastUpdate(body)
        IN /\ IF ~id.wellFormed \/ UpdateValidationFails(upd)
              THEN /\ last' = Answer("PUT", id, body, 400)
                   /\ db' = db
              ELSE /\ db' = FindOneAndUpdate(db, id, upd)
                   /\ last' = Answer("PUT", id, body,
                                     IF Stored(db, id) THEN 200 ELSE 404)
           /\ UNCHANGED <<users, assets, clock, reqs, nextId>>

\* DELETE /api/assets/:id
DeleteAsset ==
    \E id \in IdInputs :
        /\ IF ~id.wellFormed
           THEN /\ last' = Answer("DELETE", id, NoRequestBody, 500)
                /\ db' = db
           ELSE /\ db' = FindOneAndDelete(db, id)
                /\ last' = Answer("DELETE", id, NoRequestBody,
                                  IF Stored(db, id) THEN 200 ELSE 404)
        /\ UNCHANGED <<users, assets, clock, reqs, nextId>>

NextAsset ==
    \/ GetAssets
    \/ GetAsset
    \/ PostAsset
    \/ PutAsset
    \/ DeleteAsset

SpecAsset == InitAsset /\ [][NextAsset]_vars

----------------------------------------------------------------------------
(* Properties of the asset entity CRUD (SpecAsset). *)

\* The step answers a PUT whose id matches no stored asset.
PutUnknownStep ==
    /\ last' # last
    /\ last'.op = "PUT"
    /\ ~Stored(db, last'.id)

\* C8 as stated: a PUT with an id that matches no stored asset answers 404
\* and leaves the collection as it was, whatever the body.
C8_UnknownIdNotFound ==
    [][PutUnknownStep => (last'.status = 404 /\ db' = db)]_vars

\* The body passes the update validation: every field it sets is, once
\* trimmed, non-empty where the schema requires it and one of the enumerated
\* values for status, and it unsets no required field.
BodyPasses(body) ==
    /\ \A p \in Paths :
          body.fields[p].has =>
            /\ p \in RequiredPaths => Trim(body.fields[p].str) # <<>>
            /\ p = "status" => Trim(body.fields[p].str) \in StatusEnum
    /\ body.unset \cap RequiredPaths = {}

\* C8 amended: a PUT with an id that matches no stored asset leaves the
\* collection as it was; it answers 404 when the id is a well-formed
\* ObjectId and the body passes the update validation, and 400 otherwise.
C8_UnknownIdUnchanged ==
    [][PutUnknownStep =>
         /\ db' = db
         /\ last'.status = (IF last'.id.wellFormed /\ BodyPasses(last'.body)
                            THEN 404 ELSE 400)]_vars

\* A PUT for the id of an asset that was created and deleted is answered 404.
C8_Witness ==
    /\ last.op = "PUT"
    /\ last.status = 404
    /\ last.id.wellFormed
    /\ last.id.n < nextId
    /\ ~Stored(db, last.id)
    /\ db # <<>>

\* C10: every stored asset has a non-empty (trimmed) name, type, status and
\* location, and a status among the enumerated values.
C10_StoredAssetsValid ==
    \A i \in 1..Len(db) :
        /\ \A p \in RequiredPaths : db[i].f[p].has /\ Trim(db[i].f[p].str) # <<>>
        /\ db[i].f["status"].str \in StatusEnum

----------------------------------------------------------------------------
(* Properties of the protected routes (SpecTx). *)

\* The request carries no token: no Authorization header, or a header with
\* a scheme and nothing after it.
NoToken(h) == ~h.present \/ Len(h.words) = 1

\* The request carries a token signed with the server's key whose role
\* claim is not 'logistics'.
WrongRoleToken(h) ==
    /\ h.present
    /\ Len(h.words) >= 2
    /\ h.words[2].key = JWT_SECRET
    /\ h.words[2].payload.role # "logistics"

Answered(q, code) == q.pc = "done" /\ q.status = code

C4_IdsDistinct ==
    \A c \in Collections :
        \A i, j \in 1..Len(assets[c]) : i # j => assets[c][i].id # assets[c][j].id

CreatedBy(r, c) ==
    /\ reqs[r].route \in CreateRoutes
    /\ CollectionOf(reqs[r].route) = c
    /\ Answered(reqs[r], 201)

\* The step in which request r's create handler answers 201.
CreateStep(r) == reqs[r].pc = "handler" /\ reqs[r].route \in CreateRoutes /\ reqs'[r].status = 201

\* C5: an accepted create request appends exactly one record at the end of
\* its own collection, keeps the prior entries and their order, leaves the
\* other collections, the inventory and the credential store unchanged; and
\* no append is lost: each collection holds as many records as create
\* requests on it were answered 201.
C5_AppendOnly ==
    [][/\ \A r \in TxSlots :
            CreateStep(r) =>
              LET c == CollectionOf(reqs[r].route)
                  n == Len(assets[c])
              IN /\ Len(assets'[c]) = n + 1
                 /\ SubSeq(assets'[c], 1, n) = assets[c]
                 /\ assets'[c][n + 1] = reqs'[r].data
                 /\ \A d \in (DOMAIN assets) \ {c} : assets'[d] = assets[d]
                 /\ users' = users
       /\ \A c \in Collections :
            Len(assets'[c]) = Cardinality({r \in TxSlots :
                                 /\ reqs'[r].route \in CreateRoutes
                                 /\ CollectionOf(reqs'[r].route) = c
                                 /\ Answered(reqs'[r], 201)})]_vars

C5_Witness ==
    \E c \in Collections :
        /\ Len(assets[c]) = 2
        /\ assets[c][1] # assets[c][2]
        /\ \E r1, r2 \in TxSlots : r1 # r2 /\ CreatedBy(r1, c) /\ CreatedBy(r2, c)

\* C6 as stated: the record returned by a create request holds every
\* submitted field with the submitted value (a submitted id included), and
\* an id.
C6_AllFieldsKept ==
    \A r \in TxSlots :
        (reqs[r].route \in CreateRoutes /\ Answered(reqs[r], 201))
        => /\ "id" \in DOMAIN reqs[r].data
           /\ \A f \in DOMAIN reqs[r].body : reqs[r].data[f] = reqs[r].body[f]

\* C6 amended: the record returned and stored holds every submitted field
\* other than id with the submitted value; its id is the server's
\* Date.now(), which replaces a submitted id; it has no other field.
C6_FieldsKeptIdServer ==
    [][\A r \in TxSlots :
         CreateStep(r) =>
           LET d == reqs'[r].data
               b == reqs'[r].body
               c == CollectionOf(reqs[r].route)
           IN /\ DOMAIN d = DOMAIN b \cup {"id"}
              /\ \A f \in (DOMAIN b) \ {"id"} : d[f] = b[f]
              /\ d.id = clock
              /\ assets'[c][Len(assets'[c])] = d]_vars

C6_Witness ==
    \E r \in TxSlots :
        /\ reqs[r].route \in CreateRoutes /\ Answered(reqs[r], 201)
        /\ "id" \in DOMAIN reqs[r].body
        /\ reqs[r].data.id # reqs[r].body.id
        /\ reqs[r].data.item = reqs[r].body.item

\* The middleware entered by q are the first Len(q.trace) of its chain, in
\* order; the gate is entered only with a verified token whose claims were
\* stored in req.user; the handler only after the gate (where there is one)
\* matched the role; a rejected request holds one response and stopped at
\* the middleware that rejected it.
ChainOrdered(q) ==
    /\ Len(q.trace) <= Len(Chain(q.route))
    /\ q.trace = SubSeq(Chain(q.route), 1, Len(q.trace))
    /\ q.stage = Len(q.trace)
    /\ Len(q.trace) >= 2 =>
          /\ q.header.present /\ Len(q.header.words) >= 2
          /\ q.header.words[2].key = JWT_SECRET
          /\ q.user = [set |-> TRUE, claims |-> q.header.words[2].payload]
    /\ ("handler" \in Range(q.trace) /\ q.route \in CreateRoutes) =>
          q.user.claims.role = "logistics"
    /\ q.sent = (IF q.pc = "done" THEN 1 ELSE 0)
    /\ q.status = 401 => q.trace = <<"authenticateToken">>
    /\ q.status = 403 => /\ "handler" \notin Range(q.trace)
                         /\ q.pc = "done"
    /\ q.status \in {200, 201} => q.trace = Chain(q.route)

\* C9: on every protected route the chain is strictly ordered (token
\* verification, then the role gate, then the handler), a request that
\* fails at a stage gets exactly one response, and an answered request
\* takes no further step.
C9_ChainOrder ==
    [][\A r \in TxSlots :
         /\ ChainOrdered(reqs'[r])
         /\ reqs[r].pc = "done" => reqs'[r] = reqs[r]]_vars

C9_Witness ==
    \E r1, r2 \in TxSlots :
        /\ reqs[r1].route \in CreateRoutes /\ Answered(reqs[r1], 201)
        /\ reqs[r1].trace = <<"authenticateToken", "authorizeRole", "handler">>
        /\ Answered(reqs[r2], 403) /\ reqs[r2].trace = <<"authenticateToken", "authorizeRole">>

====
